---- MODULE Spec2Model ----
(***************************************************************************)
(* State-machine model of the drag-and-drop demo pages.                    *)
(*                                                                         *)
(* Every page is a React component whose state lives in useState cells;    *)
(* the drag-and-drop library calls the page's onDragStart / onDragEnd      *)
(* callbacks with an `active` draggable id and an `over` droppable id (or  *)
(* null).  React commits the state updates of one callback before the next *)
(* user event is dispatched, so a callback together with its updater is    *)
(* one step.  Item records are immutable and determined by their id, so a  *)
(* list of records is modelled as the list of their ids.                   *)
(***************************************************************************)
EXTENDS Integers, Sequences, FiniteSets, TLC

VARIABLES
    page,          \* the page component currently mounted
    tasks,         \* KanbanBoardPage: useState(initialTasks)
    activeTask,    \* KanbanBoardPage: useState<Task | null>(null)
    kbDrags,       \* number of drag-end events since the board was mounted/reset
    mcItems,       \* MultipleContainersPage: useState({...})
    slItems,       \* SortableListPage: useState(initialItems)
    coItems,       \* CustomOverlayPage: useState(fileItems)
    activeItem,    \* CustomOverlayPage: useState(null)
    fpItems,       \* FreePositioningPage: useState(initialItems), as committed
    fpQueue,       \* FreePositioningPage: setItems calls not yet rendered
    fpEffects,     \* FreePositioningPage: passive effects not yet run
    fpCrashed,     \* FreePositioningPage: a render threw
    storage,       \* localStorage entry "free-positioning-items"
    console,       \* console.error calls of the current document
    initialTasks,  \* module-level object of the Kanban page
    initialItems,  \* module-level array of the sortable-list page
    fileItems,     \* module-level array of the custom-overlay page
    fpInitialItems,\* module-level array initialItems of the free-positioning page
    position,      \* BasicDraggablePage: useState({ x: 0, y: 0 })
    parent,        \* BasicDroppablePage: useState<string | null>(null)
    lastOp,        \* history: the kind of the last callback run on the page
    fpExpect,      \* history: items state left behind by a settled unmount
    discarded      \* history: the page whose changed state a navigation dropped

vars == <<page, tasks, activeTask, kbDrags, mcItems, slItems, coItems, activeItem,
          fpItems, fpQueue, fpEffects, fpCrashed, storage, console, fpExpect,
          initialTasks, initialItems, fileItems, fpInitialItems, lastOp,
          position, parent, discarded>>

kbVars == <<tasks, activeTask, kbDrags>>
mcVars == <<mcItems>>
slVars == <<slItems>>
coVars == <<coItems, activeItem>>
fpVars == <<fpItems, fpQueue, fpEffects, fpCrashed, storage, console, fpExpect>>
basicVars == <<position, parent>>
constVars == <<initialTasks, initialItems, fileItems, fpInitialItems>>

\* JavaScript's null and undefined.
NULL == "null"
UNDEFINED == "undefined"

\* No page (value of the history variable discarded).
NONE == "none"

\* Bound: drag-end events explored on the Kanban board after a mount or reset.
MaxDrags == 2

----------------------------------------------------------------------------
(* JavaScript array primitives, on 0-based indices.                        *)

Min(a, b) == IF a < b THEN a ELSE b
Max(a, b) == IF a > b THEN a ELSE b

\* Array.prototype.findIndex / indexOf on ids: first 0-based index, or -1.
FindIndex(arr, id) ==
    IF \E i \in 1..Len(arr) : arr[i] = id
    THEN (CHOOSE i \in 1..Len(arr) :
              arr[i] = id /\ \A j \in 1..(i - 1) : arr[j] # id) - 1
    ELSE -1

\* Array.prototype.includes / some(x => x.id === id).
Includes(arr, id) == \E i \in 1..Len(arr) : arr[i] = id

\* The start index Array.prototype.splice uses: negative counts from the end,
\* and the result is clamped to 0..length.
SpliceStart(arr, start) ==
    IF start < 0 THEN Max(Len(arr) + start, 0) ELSE Min(start, Len(arr))

\* arr.splice(start, 1): the array after the call.
SpliceRemove(arr, start) ==
    LET s == SpliceStart(arr, start)
    IN  IF s >= Len(arr) THEN arr
        ELSE SubSeq(arr, 1, s) \o SubSeq(arr, s + 2, Len(arr))

\* arr.splice(start, 1)[0]: the removed element, undefined if none.
SpliceRemoved(arr, start) ==
    LET s == SpliceStart(arr, start)
    IN  IF s >= Len(arr) THEN UNDEFINED ELSE arr[s + 1]

\* arr.splice(start, 0, x): the array after the call.
SpliceInsert(arr, start, x) ==
    LET s == SpliceStart(arr, start)
    IN  SubSeq(arr, 1, s) \o <<x>> \o SubSeq(arr, s + 1, Len(arr))

\* arrayMove exchanging the elements at from and to instead of moving one.
arrayMove_exchange(array, from, to) ==
    IF from \in 0..(Len(array) - 1) /\ to \in 0..(Len(array) - 1)
    THEN [i \in 1..Len(array) |->
             IF i = from + 1 THEN array[to + 1]
             ELSE IF i = to + 1 THEN array[from + 1]
             ELSE array[i]]
    ELSE array

\* arrayMove(array, from, to) of @dnd-kit/sortable:
\*   newArray = array.slice();
\*   newArray.splice(to < 0 ? newArray.length + to : to, 0,
\*                   newArray.splice(from, 1)[0]);
arrayMove(array, from, to) ==
    LET removed == SpliceRemoved(array, from)
        rest    == SpliceRemove(array, from)
        \* the first argument is evaluated before the inner splice runs
        target  == IF to < 0 THEN Len(array) + to ELSE to
    IN  SpliceInsert(rest, target, removed)

----------------------------------------------------------------------------
(* Kanban board                                                            *)

\* Object.keys(tasks): the columns in insertion order.
columns == <<"to-do", "in-progress", "completed">>
ColumnIds == {columns[i] : i \in 1..Len(columns)}

\* The hardcoded board.
InitialTasksLiteral ==
    [c \in ColumnIds |->
        CASE c = "to-do"       -> <<"task-1", "task-2", "task-3">>
          [] c = "in-progress" -> <<"task-4", "task-5">>
          [] c = "completed"   -> <<"task-6", "task-7">>]

TaskIds ==
    UNION {{InitialTasksLiteral[c][i] : i \in 1..Len(InitialTasksLiteral[c])} :
              c \in ColumnIds}

\* findColumnOfTask(tasks, taskId): first column holding the task, or undefined.
findColumnOfTask(board, taskId) ==
    IF \E i \in 1..Len(columns) : Includes(board[columns[i]], taskId)
    THEN columns[CHOOSE i \in 1..Len(columns) :
                    /\ Includes(board[columns[i]], taskId)
                    /\ \A j \in 1..(i - 1) : ~Includes(board[columns[j]], taskId)]
    ELSE UNDEFINED

\* kbUpdater with the cross-column branches forgetting to write the source
\* column back ([activeColumn]: activeItems left out of the returned object).
kbUpdater_keepSource(prevTasks, activeId, overId, activeColumn, overColumn) ==
    IF overColumn # UNDEFINED /\ activeColumn # overColumn
    THEN LET activeIndex == FindIndex(prevTasks[activeColumn], activeId)
             overIndex   == FindIndex(prevTasks[overColumn], overId)
             task        == SpliceRemoved(prevTasks[activeColumn], activeIndex)
         IN  IF overId \in DOMAIN prevTasks
             THEN [prevTasks EXCEPT ![overId] = Append(prevTasks[overId], task)]
             ELSE [prevTasks EXCEPT ![overColumn] =
                      SpliceInsert(prevTasks[overColumn],
                                   IF overIndex >= 0 THEN overIndex
                                   ELSE Len(prevTasks[overColumn]),
                                   task)]
    ELSE IF activeColumn = overColumn
    THEN LET items       == prevTasks[activeColumn]
             activeIndex == FindIndex(items, activeId)
             overIndex   == FindIndex(items, overId)
         IN  [prevTasks EXCEPT ![activeColumn] = arrayMove(items, activeIndex, overIndex)]
    ELSE prevTasks

\* kbUpdater with the cross-column branch forgetting to write the target
\* column back ([overColumn]: overItems left out of the returned object).
kbUpdater_dropTarget(prevTasks, activeId, overId, activeColumn, overColumn) ==
    IF overColumn # UNDEFINED /\ activeColumn # overColumn
    THEN LET activeIndex == FindIndex(prevTasks[activeColumn], activeId)
             activeItems == SpliceRemove(prevTasks[activeColumn], activeIndex)
         IN  [prevTasks EXCEPT ![activeColumn] = activeItems]
    ELSE IF activeColumn = overColumn
    THEN LET items       == prevTasks[activeColumn]
             activeIndex == FindIndex(items, activeId)
             overIndex   == FindIndex(items, overId)
         IN  [prevTasks EXCEPT ![activeColumn] = arrayMove(items, activeIndex, overIndex)]
    ELSE prevTasks

\* kbUpdater inserting a task dropped on a task of another column behind
\* that task (overIndex + 1) instead of at its index.
kbUpdater_behindOver(prevTasks, activeId, overId, activeColumn, overColumn) ==
    IF overColumn # UNDEFINED /\ activeColumn # overColumn
    THEN LET activeIndex == FindIndex(prevTasks[activeColumn], activeId)
             overIndex   == FindIndex(prevTasks[overColumn], overId)
             task        == SpliceRemoved(prevTasks[activeColumn], activeIndex)
             activeItems == SpliceRemove(prevTasks[activeColumn], activeIndex)
         IN  IF overId \in DOMAIN prevTasks
             THEN [[prevTasks EXCEPT ![activeColumn] = activeItems]
                      EXCEPT ![overId] = Append(prevTasks[overId], task)]
             ELSE [[prevTasks EXCEPT ![activeColumn] = activeItems]
                      EXCEPT ![overColumn] =
                          SpliceInsert(prevTasks[overColumn],
                                       IF overIndex >= 0 THEN overIndex + 1
                                       ELSE Len(prevTasks[overColumn]),
                                       task)]
    ELSE IF activeColumn = overColumn
    THEN LET items       == prevTasks[activeColumn]
             activeIndex == FindIndex(items, activeId)
             overIndex   == FindIndex(items, overId)
         IN  [prevTasks EXCEPT ![activeColumn] = arrayMove(items, activeIndex, overIndex)]
    ELSE prevTasks

\* The updater handed to setTasks in handleDragEnd.
kbUpdater(prevTasks, activeId, overId, activeColumn, overColumn) ==
    IF overColumn # UNDEFINED /\ activeColumn # overColumn
    THEN LET activeIndex == FindIndex(prevTasks[activeColumn], activeId)
             overIndex   == FindIndex(prevTasks[overColumn], overId)
             task        == SpliceRemoved(prevTasks[activeColumn], activeIndex)
             activeItems == SpliceRemove(prevTasks[activeColumn], activeIndex)
         IN  IF overId \in DOMAIN prevTasks
             THEN [[prevTasks EXCEPT ![activeColumn] = activeItems]
                      EXCEPT ![overId] = Append(prevTasks[overId], task)]
             ELSE [[prevTasks EXCEPT ![activeColumn] = activeItems]
                      EXCEPT ![overColumn] =
                          SpliceInsert(prevTasks[overColumn],
                                       IF overIndex >= 0 THEN overIndex
                                       ELSE Len(prevTasks[overColumn]),
                                       task)]
    ELSE IF activeColumn = overColumn
    THEN LET items       == prevTasks[activeColumn]
             activeIndex == FindIndex(items, activeId)
             overIndex   == FindIndex(items, overId)
         IN  [prevTasks EXCEPT ![activeColumn] = arrayMove(items, activeIndex, overIndex)]
    ELSE prevTasks

\* The board handleDragEnd leaves: the early returns keep it, otherwise the
\* updater is applied to it.
kbTasksAfterDragEnd(board, activeId, overId) ==
    IF overId = NULL \/ activeId = overId THEN board
    ELSE LET activeColumn == findColumnOfTask(board, activeId)
             overColumn   == findColumnOfTask(board, overId)
         IN  IF activeColumn = UNDEFINED THEN board
             ELSE kbUpdater(board, activeId, overId, activeColumn, overColumn)

\* The draggables the board registers (one per task card) and the ids a drag
\* can end over: the task cards, the column ids handleDragEnd tests for, or
\* nothing.
kbActiveIds == TaskIds
kbOverIds == TaskIds \cup ColumnIds \cup {NULL}

\* The ids handleDragStart is explored with: the task cards, and an id that
\* no task of the board has (the callback looks the id up before using it).
kbStartIds == TaskIds \cup {"task-0"}

kbHandleDragStart(activeId) ==
    /\ page = "kanban"
    /\ LET columnId == findColumnOfTask(tasks, activeId)
       IN  IF columnId # UNDEFINED /\ Includes(tasks[columnId], activeId)
           THEN activeTask' = activeId
           ELSE UNCHANGED activeTask
    /\ lastOp' = "dragStart"
    /\ discarded' = NONE
    /\ UNCHANGED <<page, tasks, kbDrags, mcVars, slVars, coVars, fpVars, basicVars, constVars>>

\* kbHandleDragEnd splicing the arrays of prevTasks themselves instead of
\* copies: while the state still is the module-level object, the drop is
\* written into initialTasks as well.
kbHandleDragEnd_inPlace(activeId, overId) ==
    /\ page = "kanban"
    /\ kbDrags < MaxDrags
    /\ kbDrags' = kbDrags + 1
    /\ IF overId = NULL \/ activeId = overId
       THEN UNCHANGED <<tasks, activeTask>>
       ELSE LET activeColumn == findColumnOfTask(tasks, activeId)
                overColumn   == findColumnOfTask(tasks, overId)
            IN  IF activeColumn = UNDEFINED
                THEN UNCHANGED <<tasks, activeTask>>
                ELSE /\ tasks' = kbUpdater(tasks, activeId, overId,
                                           activeColumn, overColumn)
                     /\ activeTask' = NULL
    /\ initialTasks' = IF tasks = initialTasks THEN tasks' ELSE initialTasks
    /\ lastOp' = "dragEnd"
    /\ discarded' = NONE
    /\ UNCHANGED <<page, mcVars, slVars, coVars, fpVars, basicVars,
                   initialItems, fileItems, fpInitialItems>>

\* handleDragEnd: setActiveTask(null) is reached only when none of the three
\* early returns is taken.
kbHandleDragEnd(activeId, overId) ==
    /\ page = "kanban"
    /\ kbDrags < MaxDrags
    /\ kbDrags' = kbDrags + 1
    /\ tasks' = kbTasksAfterDragEnd(tasks, activeId, overId)
    /\ IF \/ overId = NULL
          \/ activeId = overId
          \/ findColumnOfTask(tasks, activeId) = UNDEFINED
       THEN UNCHANGED activeTask
       ELSE activeTask' = NULL
    /\ lastOp' = "dragEnd"
    /\ discarded' = NONE
    /\ UNCHANGED <<page, mcVars, slVars, coVars, fpVars, basicVars, constVars>>

resetBoard ==
    /\ page = "kanban"
    /\ tasks' = initialTasks
    /\ kbDrags' = 0
    /\ lastOp' = "reset"
    /\ discarded' = NONE
    /\ UNCHANGED <<page, activeTask, mcVars, slVars, coVars, fpVars, basicVars, constVars>>

----------------------------------------------------------------------------
(* Multiple containers                                                     *)

\* The droppable containers the page renders.
containers == <<"Container A", "Container B", "Container C">>

\* Object.keys(items): the keys of the state object in insertion order.
mcKeys == <<"Container A", "Container B", "Container C", "root">>
mcKeySet == {mcKeys[i] : i \in 1..Len(mcKeys)}

\* The object literal handed to useState.
mcInitialItems ==
    [k \in mcKeySet |->
        CASE k = "Container A" -> <<"item-1", "item-2">>
          [] k = "Container B" -> <<"item-3">>
          [] k = "Container C" -> <<"item-4", "item-5">>
          [] k = "root"        -> <<>>]

mcItemIds == UNION {{mcInitialItems[k][i] : i \in 1..Len(mcInitialItems[k])} : k \in mcKeySet}

\* findContainer(itemId): a key of the state is its own container; otherwise
\* the first key whose array includes the id, or undefined.
findContainer(items, itemId) ==
    IF itemId \in DOMAIN items THEN itemId
    ELSE IF \E i \in 1..Len(mcKeys) : Includes(items[mcKeys[i]], itemId)
    THEN mcKeys[CHOOSE i \in 1..Len(mcKeys) :
                    /\ Includes(items[mcKeys[i]], itemId)
                    /\ \A j \in 1..(i - 1) : ~Includes(items[mcKeys[j]], itemId)]
    ELSE UNDEFINED

\* mcUpdater without the splice that removes the item from its source.
mcUpdater_keepSource(prev, activeId, activeContainer, overContainer) ==
    [prev EXCEPT ![overContainer] = Append(prev[overContainer], activeId)]

\* mcUpdater putting the item in front of the target's items (unshift
\* instead of push).
mcUpdater_unshift(prev, activeId, activeContainer, overContainer) ==
    LET activeIndex == FindIndex(prev[activeContainer], activeId)
        activeItems == SpliceRemove(prev[activeContainer], activeIndex)
        overItems   == <<activeId>> \o prev[overContainer]
    IN  [[prev EXCEPT ![activeContainer] = activeItems]
            EXCEPT ![overContainer] = overItems]

\* The updater handed to setItems in handleDragEnd.
mcUpdater(prev, activeId, activeContainer, overContainer) ==
    LET activeIndex == FindIndex(prev[activeContainer], activeId)
        activeItems == SpliceRemove(prev[activeContainer], activeIndex)
        overItems   == Append(prev[overContainer], activeId)
    IN  [[prev EXCEPT ![activeContainer] = activeItems]
            EXCEPT ![overContainer] = overItems]

\* The items handleDragEnd leaves: the early returns keep them, otherwise the
\* updater is applied.
mcItemsAfterDragEnd(items, activeId, overId) ==
    IF overId = NULL THEN items
    ELSE LET activeContainer == findContainer(items, activeId)
             found           == findContainer(items, overId)
             overContainer   == IF found # UNDEFINED THEN found ELSE overId
         IN  IF \/ activeContainer = UNDEFINED
                \/ activeContainer = overContainer
             THEN items
             ELSE mcUpdater(items, activeId, activeContainer, overContainer)

\* Draggables: the items; droppables: the rendered containers.
mcActiveIds == mcItemIds
mcOverIds == {containers[i] : i \in 1..Len(containers)} \cup {NULL}

mcHandleDragEnd(activeId, overId) ==
    /\ page = "multi"
    /\ mcItems' = mcItemsAfterDragEnd(mcItems, activeId, overId)
    /\ lastOp' = "dragEnd"
    /\ discarded' = NONE
    /\ UNCHANGED <<page, kbVars, slVars, coVars, fpVars, basicVars, constVars>>

----------------------------------------------------------------------------
(* Sortable list                                                           *)

\* The hardcoded to-do list.
InitialItemsLiteral == <<"1", "2", "3", "4", "5", "6">>
slItemIds == {InitialItemsLiteral[i] : i \in 1..Len(InitialItemsLiteral)}

\* slUpdater with the two indices handed to arrayMove in the wrong order.
slUpdater_swapped(items, activeId, overId) ==
    LET oldIndex == FindIndex(items, activeId)
        newIndex == FindIndex(items, overId)
    IN  arrayMove(items, newIndex, oldIndex)

\* The updater handed to setItems in handleDragEnd.
slUpdater(items, activeId, overId) ==
    LET oldIndex == FindIndex(items, activeId)
        newIndex == FindIndex(items, overId)
    IN  arrayMove(items, oldIndex, newIndex)

slActiveIds == slItemIds
slOverIds == slItemIds \cup {NULL}

\* slItemsAfterDragEnd without the test of over: a drag released over no
\* item runs the updater with an index of -1 for the target.
slItemsAfterDragEnd_noOverTest(items, activeId, overId) ==
    IF activeId # overId THEN slUpdater(items, activeId, overId) ELSE items

\* The items handleDragEnd leaves: setItems is called only for a drag that
\* ended over another item.
slItemsAfterDragEnd(items, activeId, overId) ==
    IF overId # NULL /\ activeId # overId
    THEN slUpdater(items, activeId, overId)
    ELSE items

slHandleDragEnd(activeId, overId) ==
    /\ page = "sortable"
    /\ slItems' = slItemsAfterDragEnd(slItems, activeId, overId)
    /\ lastOp' = "dragEnd"
    /\ discarded' = NONE
    /\ UNCHANGED <<page, kbVars, mcVars, coVars, fpVars, basicVars, constVars>>

resetList ==
    /\ page = "sortable"
    /\ slItems' = initialItems
    /\ lastOp' = "reset"
    /\ discarded' = NONE
    /\ UNCHANGED <<page, kbVars, mcVars, coVars, fpVars, basicVars, constVars>>

----------------------------------------------------------------------------
(* Custom drag overlay                                                     *)

\* The hardcoded file list.
FileItemsLiteral == <<"file-1", "file-2", "file-3", "file-4", "file-5">>
coItemIds == {FileItemsLiteral[i] : i \in 1..Len(FileItemsLiteral)}

\* The updater handed to setItems in handleDragEnd.
coUpdater(items, activeId, overId) ==
    LET oldIndex == FindIndex(items, activeId)
        newIndex == FindIndex(items, overId)
    IN  arrayMove(items, oldIndex, newIndex)

coActiveIds == coItemIds
coOverIds == coItemIds \cup {NULL}

\* The items handleDragEnd leaves: setItems is called only for a drag that
\* ended over another file.
coItemsAfterDragEnd(items, activeId, overId) ==
    IF overId # NULL /\ activeId # overId
    THEN coUpdater(items, activeId, overId)
    ELSE items

\* The ids handleDragStart is explored with: the files, and an id that no
\* file of the list has (the callback looks the id up before using it).
coStartIds == coItemIds \cup {"file-0"}

\* coHandleDragStart storing the result of find as it is: undefined, shown
\* as no overlay, for an id that is not in the list.
coHandleDragStart_storeMiss(activeId) ==
    /\ page = "overlay"
    /\ IF Includes(coItems, activeId)
       THEN activeItem' = activeId
       ELSE activeItem' = NULL
    /\ lastOp' = "dragStart"
    /\ discarded' = NONE
    /\ UNCHANGED <<page, coItems, kbVars, mcVars, slVars, fpVars, basicVars, constVars>>

coHandleDragStart(activeId) ==
    /\ page = "overlay"
    /\ IF Includes(coItems, activeId)
       THEN activeItem' = activeId
       ELSE UNCHANGED activeItem
    /\ lastOp' = "dragStart"
    /\ discarded' = NONE
    /\ UNCHANGED <<page, coItems, kbVars, mcVars, slVars, fpVars, basicVars, constVars>>

\* coHandleDragEnd clearing the active item only when the list is reordered.
coHandleDragEnd_early(activeId, overId) ==
    /\ page = "overlay"
    /\ IF overId # NULL /\ activeId # overId
       THEN /\ coItems' = coUpdater(coItems, activeId, overId)
            /\ activeItem' = NULL
       ELSE UNCHANGED <<coItems, activeItem>>
    /\ lastOp' = "dragEnd"
    /\ discarded' = NONE
    /\ UNCHANGED <<page, kbVars, mcVars, slVars, fpVars, basicVars, constVars>>

coHandleDragEnd(activeId, overId) ==
    /\ page = "overlay"
    /\ coItems' = coItemsAfterDragEnd(coItems, activeId, overId)
    /\ activeItem' = NULL
    /\ lastOp' = "dragEnd"
    /\ discarded' = NONE
    /\ UNCHANGED <<page, kbVars, mcVars, slVars, fpVars, basicVars, constVars>>

resetItems ==
    /\ page = "overlay"
    /\ coItems' = fileItems
    /\ lastOp' = "reset"
    /\ discarded' = NONE
    /\ UNCHANGED <<page, activeItem, kbVars, mcVars, slVars, fpVars, basicVars, constVars>>

----------------------------------------------------------------------------
(* Basic draggable                                                         *)

\* The object literal handed to useState.
InitialPosition == [x |-> 0, y |-> 0]

\* Bound: the distance |x| + |y| from the origin that drags of the basic
\* draggable element are explored up to.
MaxOffset == 2

\* The deltas a drag-end event is explored with, per coordinate.
Deltas == {-1, 0, 1}

\* The updater handed to setPosition in handleDragEnd.
bdUpdater(prev, dx, dy) == [x |-> prev.x + dx, y |-> prev.y + dy]

\* event.delta is an object: `if (delta)` always holds.
bdHandleDragEnd(dx, dy) ==
    /\ page = "draggable"
    /\ LET next == bdUpdater(position, dx, dy)
       IN  /\ (IF next.x < 0 THEN -next.x ELSE next.x)
                + (IF next.y < 0 THEN -next.y ELSE next.y) <= MaxOffset
           /\ position' = next
    /\ lastOp' = "dragEnd"
    /\ discarded' = NONE
    /\ UNCHANGED <<page, parent, kbVars, mcVars, slVars, coVars, fpVars, constVars>>

----------------------------------------------------------------------------
(* Basic droppable                                                         *)

\* The one droppable the page renders, or no droppable under the pointer.
dpOverIds == {"droppable-area", NULL}

\* handleDragEnd taking every drag-end for a drop in the area, whatever the
\* drag ended over.
dpHandleDragEnd_always(overId) ==
    /\ page = "droppable"
    /\ parent' = "droppable-area"
    /\ lastOp' = "dragEnd"
    /\ discarded' = NONE
    /\ UNCHANGED <<page, position, kbVars, mcVars, slVars, coVars, fpVars, constVars>>

\* setParent(over ? over.id : null)
dpHandleDragEnd(overId) ==
    /\ page = "droppable"
    /\ parent' = IF overId # NULL THEN overId ELSE NULL
    /\ lastOp' = "dragEnd"
    /\ discarded' = NONE
    /\ UNCHANGED <<page, position, kbVars, mcVars, slVars, coVars, fpVars, constVars>>

\* The render: the draggable element is placed in the left box unless the
\* parent is the droppable area, and inside the area if it is.
dpRenderedOutside(par) == par # "droppable-area"
dpRenderedInside(par) == par = "droppable-area"

\* The status line of the render.
dpStatus(par) ==
    IF par = "droppable-area" THEN "Item dropped in target area!"
    ELSE "Item outside target area"

----------------------------------------------------------------------------
(* JavaScript values and JSON text                                         *)
(*                                                                         *)
(* A JavaScript value is a record [t, key, s, n, kids]: t is its type,     *)
(* s / n its string / number payload, kids the elements of an array or the *)
(* properties of an object in insertion order, each carrying its property  *)
(* name in key.  A string of JSON text is the sequence of its tokens.      *)

JNull == [t |-> "null", key |-> "", s |-> "", n |-> 0, kids |-> <<>>]
JStr(x) == [t |-> "str", key |-> "", s |-> x, n |-> 0, kids |-> <<>>]
JNum(x) == [t |-> "num", key |-> "", s |-> "", n |-> x, kids |-> <<>>]
JArr(elems) == [t |-> "arr", key |-> "", s |-> "", n |-> 0, kids |-> elems]
JObj(props) == [t |-> "obj", key |-> "", s |-> "", n |-> 0, kids |-> props]
Prop(k, v) == [v EXCEPT !.key = k]

\* "k in obj" and obj[k] (JNull stands for a missing property).
HasProp(obj, k) == \E i \in 1..Len(obj.kids) : obj.kids[i].key = k
GetProp(obj, k) ==
    IF obj.t = "obj" /\ HasProp(obj, k)
    THEN [(obj.kids[CHOOSE i \in 1..Len(obj.kids) : obj.kids[i].key = k])
             EXCEPT !.key = ""]
    ELSE JNull

TPunct(c) == [k |-> "p", s |-> c, n |-> 0]
TString(x) == [k |-> "s", s |-> x, n |-> 0]
TNumber(x) == [k |-> "n", s |-> "", n |-> x]
TNullLit == [k |-> "l", s |-> "null", n |-> 0]

RECURSIVE JSONstringify(_)
RECURSIVE StringifyKids(_, _, _)

\* The tokens of kids[i..], comma separated; object properties as "key":value.
StringifyKids(kids, i, asProps) ==
    IF i > Len(kids) THEN <<>>
    ELSE (IF i > 1 THEN <<TPunct(",")>> ELSE <<>>)
         \o (IF asProps THEN <<TString(kids[i].key), TPunct(":")>> ELSE <<>>)
         \o JSONstringify(kids[i])
         \o StringifyKids(kids, i + 1, asProps)

\* JSON.stringify(value).
JSONstringify(v) ==
    CASE v.t = "null" -> <<TNullLit>>
      [] v.t = "str"  -> <<TString(v.s)>>
      [] v.t = "num"  -> <<TNumber(v.n)>>
      [] v.t = "arr"  -> <<TPunct("[")>> \o StringifyKids(v.kids, 1, FALSE)
                         \o <<TPunct("]")>>
      [] v.t = "obj"  -> <<TPunct("{")>> \o StringifyKids(v.kids, 1, TRUE)
                         \o <<TPunct("}")>>

ParseFail == [ok |-> FALSE, val |-> JNull, rest |-> <<>>]
ParseOk(v, rest) == [ok |-> TRUE, val |-> v, rest |-> rest]

RECURSIVE ParseValue(_)
RECURSIVE ParseElements(_, _)
RECURSIVE ParseMembers(_, _)

\* value [, value]* ]
ParseElements(toks, acc) ==
    LET r == ParseValue(toks)
    IN  IF ~r.ok \/ r.rest = <<>> THEN ParseFail
        ELSE IF Head(r.rest) = TPunct(",")
        THEN ParseElements(Tail(r.rest), Append(acc, r.val))
        ELSE IF Head(r.rest) = TPunct("]")
        THEN ParseOk(JArr(Append(acc, r.val)), Tail(r.rest))
        ELSE ParseFail

\* "key" : value [, "key" : value]* }
ParseMembers(toks, acc) ==
    IF Len(toks) < 2 \/ toks[1].k # "s" \/ toks[2] # TPunct(":") THEN ParseFail
    ELSE LET r == ParseValue(SubSeq(toks, 3, Len(toks)))
         IN  IF ~r.ok \/ r.rest = <<>> THEN ParseFail
             ELSE IF Head(r.rest) = TPunct(",")
             THEN ParseMembers(Tail(r.rest), Append(acc, Prop(toks[1].s, r.val)))
             ELSE IF Head(r.rest) = TPunct("}")
             THEN ParseOk(JObj(Append(acc, Prop(toks[1].s, r.val))), Tail(r.rest))
             ELSE ParseFail

ParseValue(toks) ==
    IF toks = <<>> THEN ParseFail
    ELSE LET h == Head(toks)
             r == Tail(toks)
         IN  CASE h.k = "s" -> ParseOk(JStr(h.s), r)
               [] h.k = "n" -> ParseOk(JNum(h.n), r)
               [] h.k = "l" -> ParseOk(JNull, r)
               [] h = TPunct("[") ->
                      IF r # <<>> /\ Head(r) = TPunct("]")
                      THEN ParseOk(JArr(<<>>), Tail(r))
                      ELSE ParseElements(r, <<>>)
               [] h = TPunct("{") ->
                      IF r # <<>> /\ Head(r) = TPunct("}")
                      THEN ParseOk(JObj(<<>>), Tail(r))
                      ELSE ParseMembers(r, <<>>)
               [] OTHER -> ParseFail

\* JSON.parse(text): ok is FALSE where JSON.parse throws a SyntaxError.
JSONparse(text) ==
    LET r == ParseValue(text)
    IN  IF r.ok /\ r.rest = <<>> THEN ParseOk(r.val, <<>>) ELSE ParseFail

----------------------------------------------------------------------------
(* Free positioning                                                        *)

PositionableItem(id, label, x, y) ==
    JObj(<<Prop("id", JStr(id)), Prop("label", JStr(label)),
           Prop("position", JObj(<<Prop("x", JNum(x)), Prop("y", JNum(y))>>))>>)

\* The hardcoded items with their positions.
FpInitialItemsLiteral ==
    JArr(<<PositionableItem("item-1", "Item 1", 50, 50),
           PositionableItem("item-2", "Item 2", 200, 100),
           PositionableItem("item-3", "Item 3", 350, 150)>>)

\* Bound: the summed distance |dx| + |dy| of all items from their hardcoded
\* positions that drags are explored up to.
MaxShift == 2

\* A useState value: the JavaScript value and whether it is the module-level
\* initialItems array itself (React compares states with Object.is).
StateValue(isInitialRef, v) == [ref |-> isInitialRef, val |-> v]

\* localStorage.getItem: an absent key reads as null.
Absent == [present |-> FALSE, text |-> <<>>]
Stored(text) == [present |-> TRUE, text |-> text]

\* The render of FreePositioningPage and DraggableItem completes iff items
\* is an array (items.map) whose elements have a position to read x and y
\* from, and an id.
Renderable(v) ==
    /\ v.t = "arr"
    /\ \A i \in 1..Len(v.kids) :
          /\ v.kids[i].t = "obj"
          /\ GetProp(v.kids[i], "position").t # "null"

\* The ids of the draggables a render registers.
fpActiveIds(v) == {GetProp(v.kids[i], "id").s : i \in 1..Len(v.kids)}

\* fpMoved with the two coordinates of the delta exchanged.
fpMoved_swapped(item, dx, dy) ==
    LET pos    == GetProp(item, "position")
        newPos == JObj(<<Prop("x", JNum(GetProp(pos, "x").n + dy)),
                         Prop("y", JNum(GetProp(pos, "y").n + dx))>>)
    IN  [item EXCEPT !.kids =
            [i \in 1..Len(item.kids) |->
                IF item.kids[i].key = "position"
                THEN Prop("position", newPos) ELSE item.kids[i]]]

\* {...item, position: {x: item.position.x + delta.x, y: item.position.y + delta.y}}
fpMoved(item, dx, dy) ==
    LET pos    == GetProp(item, "position")
        newPos == JObj(<<Prop("x", JNum(GetProp(pos, "x").n + dx)),
                         Prop("y", JNum(GetProp(pos, "y").n + dy))>>)
    IN  [item EXCEPT !.kids =
            [i \in 1..Len(item.kids) |->
                IF item.kids[i].key = "position"
                THEN Prop("position", newPos) ELSE item.kids[i]]]

\* The updater handed to setItems in handleDragEnd.
fpUpdater(prevItems, activeId, dx, dy) ==
    [prevItems EXCEPT !.kids =
        [i \in 1..Len(prevItems.kids) |->
            IF GetProp(prevItems.kids[i], "id") = JStr(activeId)
            THEN fpMoved(prevItems.kids[i], dx, dy)
            ELSE prevItems.kids[i]]]

\* One queued setItems call applied to the state it finds.
fpApply(sv, upd) ==
    IF upd.kind = "set" THEN upd.sv
    ELSE StateValue(FALSE, fpUpdater(sv.val, upd.id, upd.dx, upd.dy))

RECURSIVE fpApplyAll(_, _)
fpApplyAll(sv, queue) ==
    IF queue = <<>> THEN sv
    ELSE fpApplyAll(fpApply(sv, Head(queue)), Tail(queue))

SetUpdate(sv) == [kind |-> "set", sv |-> sv, id |-> "", dx |-> 0, dy |-> 0]
DragUpdate(id, dx, dy) ==
    [kind |-> "drag", sv |-> StateValue(FALSE, JNull), id |-> id, dx |-> dx, dy |-> dy]

LoadEffect == [name |-> "load", items |-> JNull]
SaveEffect(v) == [name |-> "save", items |-> v]

Abs(x) == IF x < 0 THEN -x ELSE x

\* Summed distance of the items from the hardcoded positions (items that are
\* not the three hardcoded ones count as 0).
Shift(v) ==
    LET d(i) == LET p == GetProp(v.kids[i], "position")
                    q == GetProp(FpInitialItemsLiteral.kids[i], "position")
                IN  Abs(GetProp(p, "x").n - GetProp(q, "x").n)
                    + Abs(GetProp(p, "y").n - GetProp(q, "y").n)
    IN  IF v.t = "arr" /\ Len(v.kids) = 3 THEN d(1) + d(2) + d(3) ELSE 0

otherVars ==
    <<tasks, activeTask, kbDrags, mcItems, slItems, coItems, activeItem, constVars,
      basicVars, discarded>>

\* fpMount with the two effects declared in the other order: save, then load.
fpMount_saveFirst ==
    /\ page = "home"
    /\ page' = "free"
    /\ fpItems' = StateValue(TRUE, fpInitialItems)
    /\ fpQueue' = <<>>
    /\ fpEffects' = <<SaveEffect(fpInitialItems), LoadEffect>>
    /\ fpCrashed' = FALSE
    /\ console' = <<>>
    /\ lastOp' = "mount"
    /\ UNCHANGED <<storage, fpExpect, otherVars>>

\* The page is opened by its URL: the component mounts with the hardcoded
\* items, and its two effects are scheduled in declaration order.
fpMount ==
    /\ page = "home"
    /\ page' = "free"
    /\ fpItems' = StateValue(TRUE, fpInitialItems)
    /\ fpQueue' = <<>>
    /\ fpEffects' = <<LoadEffect, SaveEffect(fpInitialItems)>>
    /\ fpCrashed' = FALSE
    /\ console' = <<>>
    /\ lastOp' = "mount"
    /\ UNCHANGED <<storage, fpExpect, otherVars>>

\* fpLoadEffect without the try/catch: the SyntaxError escapes the effect and
\* takes the page down, nothing is logged.
fpLoadEffect_uncaught ==
    /\ page = "free"
    /\ fpEffects # <<>> /\ Head(fpEffects).name = "load"
    /\ LET savedItems == storage
       IN  IF savedItems.present /\ savedItems.text # <<>>
           THEN LET parsed == JSONparse(savedItems.text)
                IN  IF parsed.ok
                    THEN /\ fpQueue' = Append(fpQueue,
                                SetUpdate(StateValue(FALSE, parsed.val)))
                         /\ fpEffects' = Tail(fpEffects)
                         /\ UNCHANGED fpCrashed
                    ELSE /\ fpCrashed' = TRUE
                         /\ fpEffects' = <<>>
                         /\ UNCHANGED fpQueue
           ELSE /\ fpEffects' = Tail(fpEffects)
                /\ UNCHANGED <<fpQueue, fpCrashed>>
    /\ UNCHANGED <<page, fpItems, storage, console, lastOp, fpExpect, otherVars>>

\* useEffect(() => {...}, []): load the saved positions.
fpLoadEffect ==
    /\ page = "free"
    /\ fpEffects # <<>> /\ Head(fpEffects).name = "load"
    /\ fpEffects' = Tail(fpEffects)
    /\ LET savedItems == storage
       IN  IF savedItems.present /\ savedItems.text # <<>>
           THEN LET parsed == JSONparse(savedItems.text)
                IN  IF parsed.ok
                    THEN /\ fpQueue' = Append(fpQueue,
                                SetUpdate(StateValue(FALSE, parsed.val)))
                         /\ UNCHANGED console
                    ELSE /\ console' = Append(console,
                                "Failed to parse saved items:")
                         /\ UNCHANGED fpQueue
           ELSE UNCHANGED <<fpQueue, console>>
    /\ UNCHANGED <<page, fpItems, fpCrashed, storage, lastOp, fpExpect, otherVars>>

\* useEffect(() => {...}, [items]): save the items the render was made with.
fpSaveEffect ==
    /\ page = "free"
    /\ fpEffects # <<>> /\ Head(fpEffects).name = "save"
    /\ fpEffects' = Tail(fpEffects)
    /\ storage' = Stored(JSONstringify(Head(fpEffects).items))
    /\ UNCHANGED <<page, fpItems, fpQueue, fpCrashed, console, lastOp, fpExpect,
                   otherVars>>

\* fpRender for a save effect declared with the dependency list []: a
\* re-render schedules no save.
fpRender_noSave ==
    /\ page = "free"
    /\ ~fpCrashed
    /\ fpEffects = <<>>
    /\ fpQueue # <<>>
    /\ fpQueue' = <<>>
    /\ LET next == fpApplyAll(fpItems, fpQueue)
       IN  IF next.ref /\ fpItems.ref
           THEN UNCHANGED <<fpItems, fpCrashed>>
           ELSE IF ~Renderable(next.val)
           THEN /\ fpCrashed' = TRUE
                /\ UNCHANGED fpItems
           ELSE /\ fpItems' = next
                /\ UNCHANGED fpCrashed
    /\ UNCHANGED <<page, fpEffects, storage, console, lastOp, fpExpect, otherVars>>

\* React renders the queued updates once the pending passive effects have
\* run.  A state that is the same object as before bails out; a render that
\* throws leaves the page crashed; otherwise the save effect is scheduled
\* because items changed.
fpRender ==
    /\ page = "free"
    /\ ~fpCrashed
    /\ fpEffects = <<>>
    /\ fpQueue # <<>>
    /\ fpQueue' = <<>>
    /\ LET next == fpApplyAll(fpItems, fpQueue)
       IN  IF next.ref /\ fpItems.ref
           THEN UNCHANGED <<fpItems, fpEffects, fpCrashed>>
           ELSE IF ~Renderable(next.val)
           THEN /\ fpCrashed' = TRUE
                /\ UNCHANGED <<fpItems, fpEffects>>
           ELSE /\ fpItems' = next
                /\ fpEffects' = <<SaveEffect(next.val)>>
                /\ UNCHANGED fpCrashed
    /\ UNCHANGED <<page, storage, console, lastOp, fpExpect, otherVars>>

\* The page is settled: every update is rendered and every effect has run.
fpSettled == page = "free" /\ ~fpCrashed /\ fpQueue = <<>> /\ fpEffects = <<>>

\* handleDragEnd of the free-positioning page.  User events arrive once React
\* has finished the work of the previous one.
fpHandleDragEnd(activeId, dx, dy) ==
    /\ fpSettled
    /\ activeId \in fpActiveIds(fpItems.val)
    /\ Shift(fpUpdater(fpItems.val, activeId, dx, dy)) <= MaxShift
    /\ fpQueue' = <<DragUpdate(activeId, dx, dy)>>
    /\ lastOp' = "dragEnd"
    /\ fpExpect' = [some |-> FALSE, val |-> JNull]
    /\ UNCHANGED <<page, fpItems, fpEffects, fpCrashed, storage, console, otherVars>>

\* resetPositions handing the current items, not initialItems, to setItems.
resetPositions_stale ==
    /\ fpSettled
    /\ fpQueue' = <<SetUpdate(fpItems)>>
    /\ lastOp' = "reset"
    /\ fpExpect' = [some |-> FALSE, val |-> JNull]
    /\ UNCHANGED <<page, fpItems, fpEffects, fpCrashed, storage, console, otherVars>>

resetPositions ==
    /\ fpSettled
    /\ fpQueue' = <<SetUpdate(StateValue(TRUE, fpInitialItems))>>
    /\ lastOp' = "reset"
    /\ fpExpect' = [some |-> FALSE, val |-> JNull]
    /\ UNCHANGED <<page, fpItems, fpEffects, fpCrashed, storage, console, otherVars>>

\* The page is left (link to "/", or the tab is closed): the component state
\* and whatever work was still pending are dropped, the storage stays.
fpUnmount ==
    /\ page = "free"
    /\ page' = "home"
    /\ fpExpect' = IF fpSettled THEN [some |-> TRUE, val |-> fpItems.val]
                   ELSE [some |-> FALSE, val |-> JNull]
    /\ fpItems' = StateValue(TRUE, fpInitialItems)
    /\ fpQueue' = <<>>
    /\ fpEffects' = <<>>
    /\ fpCrashed' = FALSE
    /\ lastOp' = "mount"
    /\ UNCHANGED <<storage, console, otherVars>>

\* Values other code of the origin, or the user, can leave under the key
\* while the page is not open: text that is not JSON, the empty string,
\* JSON of another shape (null, an empty object), and no entry at all.
ExternalValues ==
    { Stored(<<TPunct("["), TPunct("{")>>),
      Stored(<<>>),
      Stored(<<TNullLit>>),
      Stored(<<TPunct("{"), TPunct("}")>>),
      Absent }

ExternalWrite(v) ==
    /\ page = "home"
    /\ storage # v
    /\ storage' = v
    /\ fpExpect' = [some |-> FALSE, val |-> JNull]
    /\ UNCHANGED <<page, fpItems, fpQueue, fpEffects, fpCrashed, console, lastOp,
                   otherVars>>

----------------------------------------------------------------------------
(* Navigation: the mounted page is unmounted and its useState cells are    *)
(* dropped; the target page mounts with the initial values of its cells.   *)

Pages == {"home", "draggable", "droppable", "multi", "sortable", "kanban", "overlay"}

\* The mounted page holds state that differs from what its mount started with.
PageChanged ==
    \/ tasks # initialTasks \/ activeTask # NULL
    \/ mcItems # mcInitialItems
    \/ slItems # initialItems
    \/ coItems # fileItems \/ activeItem # NULL
    \/ position # InitialPosition
    \/ parent # NULL

\* Navigate with the pages' state kept in a store that outlives the
\* components: a mount finds what the last visit left.
Navigate_keepState(p) ==
    /\ page' = p
    /\ kbDrags' = 0
    /\ lastOp' = "mount"
    /\ discarded' = IF PageChanged THEN page ELSE discarded
    /\ UNCHANGED <<tasks, activeTask, mcItems, slItems, coItems, activeItem,
                   basicVars, fpVars, constVars>>

Navigate(p) ==
    /\ page' = p
    /\ tasks' = initialTasks
    /\ activeTask' = NULL
    /\ kbDrags' = 0
    /\ mcItems' = mcInitialItems
    /\ slItems' = initialItems
    /\ coItems' = fileItems
    /\ activeItem' = NULL
    /\ position' = InitialPosition
    /\ parent' = NULL
    /\ lastOp' = "mount"
    /\ discarded' = IF PageChanged THEN page ELSE discarded
    /\ UNCHANGED <<fpVars, constVars>>

Init ==
    /\ page = "home"
    /\ initialTasks = InitialTasksLiteral
    /\ initialItems = InitialItemsLiteral
    /\ fileItems = FileItemsLiteral
    /\ fpInitialItems = FpInitialItemsLiteral
    /\ tasks = InitialTasksLiteral
    /\ activeTask = NULL
    /\ kbDrags = 0
    /\ mcItems = mcInitialItems
    /\ slItems = InitialItemsLiteral
    /\ coItems = FileItemsLiteral
    /\ activeItem = NULL
    /\ fpItems = StateValue(TRUE, FpInitialItemsLiteral)
    /\ fpQueue = <<>>
    /\ fpEffects = <<>>
    /\ fpCrashed = FALSE
    /\ storage = Absent
    /\ console = <<>>
    /\ position = InitialPosition
    /\ parent = NULL
    /\ lastOp = "mount"
    /\ fpExpect = [some |-> FALSE, val |-> JNull]
    /\ discarded = NONE

Next ==
    \/ \E p \in Pages : Navigate(p)
    \/ \E dx \in Deltas, dy \in Deltas : bdHandleDragEnd(dx, dy)
    \/ \E o \in dpOverIds : dpHandleDragEnd(o)
    \/ \E a \in kbStartIds : kbHandleDragStart(a)
    \/ \E a \in kbActiveIds, o \in kbOverIds : kbHandleDragEnd(a, o)
    \/ resetBoard
    \/ \E a \in mcActiveIds, o \in mcOverIds : mcHandleDragEnd(a, o)
    \/ \E a \in slActiveIds, o \in slOverIds : slHandleDragEnd(a, o)
    \/ resetList
    \/ \E a \in coStartIds : coHandleDragStart(a)
    \/ \E a \in coActiveIds, o \in coOverIds : coHandleDragEnd(a, o)
    \/ resetItems

Spec == Init /\ [][Next]_vars

\* The free-positioning page, which no other page links to, with the storage
\* it shares with later visits.
NextFree ==
    \/ fpMount
    \/ fpLoadEffect
    \/ fpSaveEffect
    \/ fpRender
    \/ \E a \in fpActiveIds(fpItems.val), dx \in Deltas, dy \in Deltas :
          fpHandleDragEnd(a, dx, dy)
    \/ resetPositions
    \/ fpUnmount
    \/ \E v \in ExternalValues : ExternalWrite(v)

SpecFree == Init /\ [][NextFree]_vars

----------------------------------------------------------------------------
(* Properties                                                              *)

\* Number of places of arr holding id.
Count(arr, id) == Cardinality({i \in 1..Len(arr) : arr[i] = id})

\* 0-based place of id in arr (ids occur once).
IndexOf(arr, id) == FindIndex(arr, id)

\* arr without id: the other elements in their order.
Without(arr, id) == SelectSeq(arr, LAMBDA x : x # id)

\* C1: on the Kanban board every task id occurs in at most one column, and at
\* most once in it, in every state reachable by drag-start, drag-end and reset.
KanbanNoDuplicates ==
    \A t \in TaskIds :
        /\ Cardinality({c \in ColumnIds : Includes(tasks[c], t)}) <= 1
        /\ \A c \in ColumnIds : Count(tasks[c], t) <= 1

\* C1 witness: a task has been dragged into another column.
KanbanTaskChangedColumn ==
    /\ page = "kanban"
    /\ lastOp = "dragEnd"
    /\ \E t \in TaskIds :
          findColumnOfTask(tasks, t) # findColumnOfTask(InitialTasksLiteral, t)

\* C2: on the multiple-containers page every item id occurs in at most one
\* of the containers A, B, C and root, and at most once in it.
ContainersNoDuplicates ==
    \A x \in mcItemIds :
        /\ Cardinality({k \in mcKeySet : Includes(mcItems[k], x)}) <= 1
        /\ \A k \in mcKeySet : Count(mcItems[k], x) <= 1

\* C2 witness: an item has been dropped into another container.
ContainersItemMoved ==
    /\ page = "multi"
    /\ lastOp = "dragEnd"
    /\ \E x \in mcItemIds :
          findContainer(mcItems, x) # findContainer(mcInitialItems, x)

\* C3: on the Kanban board activeTask is null after every drag-end event,
\* whatever the drop target.
KanbanActiveClearedOnDragEnd ==
    page = "kanban" /\ lastOp = "dragEnd" => activeTask = NULL

\* C4: on the custom-overlay page activeItem is null after every drag-end
\* event, and it takes a non-null value only in a drag-start: it is non-null
\* only between a drag-start and the next drag-end.
OverlayActiveClearedOnDragEnd ==
    /\ [](page = "overlay" /\ lastOp = "dragEnd" => activeItem = NULL)
    /\ [][/\ (\E a \in coActiveIds, o \in coOverIds : coHandleDragEnd(a, o))
                => activeItem' = NULL
          /\ (activeItem' # NULL /\ activeItem' # activeItem)
                => \E a \in coStartIds : coHandleDragStart(a)]_vars

\* C4 witness: a drag has ended with a reordering and the active item is null.
OverlayDragEnded ==
    /\ page = "overlay"
    /\ lastOp = "dragEnd"
    /\ coItems # FileItemsLiteral
    /\ activeItem = NULL

\* The stored value is one JSON.parse throws on.
Undecodable(st) == st.present /\ ~JSONparse(st.text).ok

\* The load effect leaves the items alone: no update is queued.
LoadKeepsItems == fpQueue' = fpQueue /\ fpItems' = fpItems

\* C5 as stated: whenever the stored value cannot be decoded at mount, the
\* load effect logs the failure and the items stay the hardcoded list.
UndecodableIsLogged ==
    [][fpLoadEffect /\ Undecodable(storage)
         => console' # console /\ LoadKeepsItems]_vars

\* C5 amended: a non-empty stored value that cannot be decoded is logged by
\* the load effect; no undecodable value, empty or not, changes the items,
\* which stay the hardcoded list until the user acts.
NonEmptyUndecodableIsLogged ==
    /\ [][fpLoadEffect /\ Undecodable(storage)
            => /\ LoadKeepsItems
               /\ storage.text # <<>>
                    => console' = Append(console, "Failed to parse saved items:")
               /\ storage.text = <<>> => console' = console]_vars
    /\ [](page = "free" /\ lastOp = "mount" /\ console # <<>>
            => /\ fpItems.val = FpInitialItemsLiteral
               /\ fpQueue = <<>>
               /\ ~fpCrashed)

\* C5 witness: the page has settled after a failed decode was logged.
FailedDecodeSettled ==
    fpSettled /\ lastOp = "mount" /\ console # <<>>

\* C6: when the page was unmounted settled with items X and is mounted
\* again, then once the mount has settled the items are X and the stored
\* value decodes to X.
PositionsPersist ==
    fpSettled /\ fpExpect.some
        => /\ fpItems.val = fpExpect.val
           /\ storage.present
           /\ JSONparse(storage.text).ok
           /\ JSONparse(storage.text).val = fpExpect.val

\* C6 witness: a later visit has settled on positions that were moved before.
MovedPositionsRestored ==
    /\ fpSettled
    /\ lastOp = "mount"
    /\ fpExpect.some
    /\ fpExpect.val # FpInitialItemsLiteral

\* C7: whenever the page is settled, the stored value is the encoding of the
\* current items.
StorageFollowsItems ==
    fpSettled => storage = Stored(JSONstringify(fpItems.val))

\* C7 witness: settled after a drag that moved an item.
SettledAfterDrag ==
    fpSettled /\ lastOp = "dragEnd" /\ fpItems.val # FpInitialItemsLiteral

\* C8 as stated: after a drag of A ends over another item B of the sortable
\* list, A precedes B.
DraggedPrecedesOver ==
    [][\A a \in slActiveIds, b \in slItemIds :
          slHandleDragEnd(a, b) /\ a # b
            => IndexOf(slItems', a) < IndexOf(slItems', b)]_vars

\* C8 amended: after a drag of A ends over another item B, A is at the index
\* B had; A precedes B if A was after B before the drop, and A comes
\* immediately after B if A was before B.
DraggedTakesIndexOfOver ==
    [][\A a \in slActiveIds, b \in slItemIds :
          slHandleDragEnd(a, b) /\ a # b
            => /\ IndexOf(slItems', a) = IndexOf(slItems, b)
               /\ IndexOf(slItems, a) > IndexOf(slItems, b)
                    => IndexOf(slItems', a) + 1 = IndexOf(slItems', b)
               /\ IndexOf(slItems, a) < IndexOf(slItems, b)
                    => IndexOf(slItems', b) + 1 = IndexOf(slItems', a)]_vars

\* C8 witness: item 1 has been dragged down onto item 3.
FirstDraggedOntoThird ==
    /\ page = "sortable"
    /\ lastOp = "dragEnd"
    /\ slItems = <<"2", "3", "1", "4", "5", "6">>

\* C9: after a reset the Kanban board, the sortable list and the file list
\* equal their hardcoded initial values, and no callback ever alters the
\* module-level initial values.
ResetRestoresInitial ==
    /\ lastOp = "reset" /\ page = "kanban" => tasks = InitialTasksLiteral
    /\ lastOp = "reset" /\ page = "sortable" => slItems = InitialItemsLiteral
    /\ lastOp = "reset" /\ page = "overlay" => coItems = FileItemsLiteral
    /\ initialTasks = InitialTasksLiteral
    /\ initialItems = InitialItemsLiteral
    /\ fileItems = FileItemsLiteral

\* C9 witness: the board has been reset while the card picked up by a
\* drag-start is still the active task.
BoardResetAfterDrag ==
    page = "kanban" /\ lastOp = "reset" /\ activeTask # NULL

\* C10: after Reset Positions has been rendered every item is at its
\* hardcoded position; once the page has settled the stored value decodes to
\* the hardcoded list, and a later visit settles on the hardcoded list.
ResetPositionsRestoresInitial ==
    /\ page = "free" /\ lastOp = "reset" /\ fpQueue = <<>> /\ ~fpCrashed
         => fpItems.val = FpInitialItemsLiteral
    /\ fpSettled /\ lastOp = "reset"
         => /\ storage.present
            /\ JSONparse(storage.text) = ParseOk(FpInitialItemsLiteral, <<>>)
    /\ fpSettled /\ fpExpect.some /\ fpExpect.val = FpInitialItemsLiteral
         => fpItems.val = FpInitialItemsLiteral

\* C10 witness: a reset of moved items has been rendered, its save is still
\* to run and the storage still holds the moved positions.
ResetPositionsRendered ==
    /\ page = "free" /\ lastOp = "reset" /\ fpQueue = <<>> /\ ~fpCrashed
    /\ fpEffects # <<>>
    /\ storage # Stored(JSONstringify(FpInitialItemsLiteral))

\* C11: in every reachable state of the Kanban board, for every task t and
\* every column c other than the one holding t (empty columns included),
\* some drop target makes a single drag-end event move t into c.
KanbanEveryColumnReachable ==
    page = "kanban" =>
        \A t \in TaskIds, c \in ColumnIds :
            findColumnOfTask(tasks, t) # c
                => \E o \in kbOverIds :
                       Includes(kbTasksAfterDragEnd(tasks, t, o)[c], t)

\* C12: when a drag of a task ends over a column id and that column is not
\* the one holding the task, the task is removed from its source column and
\* added at the end of that column.
ColumnDropAppends ==
    [][\A a \in kbActiveIds, c \in ColumnIds :
          kbHandleDragEnd(a, c) /\ findColumnOfTask(tasks, a) # c
            => /\ tasks'[c] = Append(tasks[c], a)
               /\ ~Includes(tasks'[findColumnOfTask(tasks, a)], a)]_vars

\* C13: in every reachable state of the multiple-containers page, a drag of
\* item i held by container S that ends over a different container D leaves
\* i out of S, i as the last element of D, the other items of S and of D in
\* their previous order, and every other container, root included,
\* unchanged.
ItemMovesToEndOfContainer ==
    page = "multi" =>
        \A i \in mcActiveIds, D \in mcOverIds \ {NULL} :
            LET S     == findContainer(mcItems, i)
                after == mcItemsAfterDragEnd(mcItems, i, D)
            IN  S # UNDEFINED /\ S # D
                  => /\ DOMAIN after = mcKeySet
                     /\ ~Includes(after[S], i)
                     /\ after[S] = Without(mcItems[S], i)
                     /\ after[D] # <<>>
                     /\ after[D][Len(after[D])] = i
                     /\ Without(after[D], i) = mcItems[D]
                     /\ \A k \in mcKeySet \ {S, D} : after[k] = mcItems[k]

\* C13 witness: item-1 has been dropped into Container B, behind item-3.
FirstItemBehindThird ==
    /\ page = "multi"
    /\ lastOp = "dragEnd"
    /\ mcItems["Container A"] = <<"item-2">>
    /\ mcItems["Container B"] = <<"item-3", "item-1">>

\* The x and y of an item of the free-positioning page.
PosX(item) == GetProp(GetProp(item, "position"), "x").n
PosY(item) == GetProp(GetProp(item, "position"), "y").n

\* C14: a drag-end event for item i with delta (dx, dy) queues exactly that
\* update, and its render sets i's position to (old x + dx, old y + dy),
\* keeps i's id and label and leaves every other item as it was: the new
\* position is a function of the previous position and the delta alone.
DragAddsDelta ==
    /\ [][\A a \in fpActiveIds(fpItems.val), dx \in Deltas, dy \in Deltas :
             fpHandleDragEnd(a, dx, dy)
               => fpQueue' = <<DragUpdate(a, dx, dy)>> /\ fpItems' = fpItems]_vars
    /\ [][\A a \in fpActiveIds(fpItems.val), dx \in Deltas, dy \in Deltas :
             fpRender /\ fpQueue = <<DragUpdate(a, dx, dy)>>
               => /\ Len(fpItems'.val.kids) = Len(fpItems.val.kids)
                  /\ \A i \in 1..Len(fpItems.val.kids) :
                        LET old == fpItems.val.kids[i]
                            new == fpItems'.val.kids[i]
                        IN  IF GetProp(old, "id").s = a
                            THEN /\ PosX(new) = PosX(old) + dx
                                 /\ PosY(new) = PosY(old) + dy
                                 /\ GetProp(new, "id") = GetProp(old, "id")
                                 /\ GetProp(new, "label") = GetProp(old, "label")
                            ELSE new = old]_vars

\* C14 witness: item-1 has been dragged by (1, -1) from its hardcoded place
\* and the drag has been rendered.
FirstItemDraggedDiagonally ==
    /\ page = "free" /\ lastOp = "dragEnd" /\ fpQueue = <<>> /\ ~fpCrashed
    /\ PosX(fpItems.val.kids[1]) = 51
    /\ PosY(fpItems.val.kids[1]) = 49

\* C15: on the Kanban and custom-overlay pages a drag-start for an id that
\* is present in the page's items sets the active item to the record with
\* that id; a drag-start for an id that is not present leaves the active
\* item as it was.
DragStartSetsActive ==
    /\ [][\A a \in kbStartIds :
             lastOp' = "dragStart" /\ kbHandleDragStart(a)
               => IF \E c \in ColumnIds : Includes(tasks[c], a)
                  THEN activeTask' = a
                  ELSE activeTask' = activeTask]_vars
    /\ [][\A a \in coStartIds :
             lastOp' = "dragStart" /\ coHandleDragStart(a)
               => IF Includes(coItems, a)
                  THEN activeItem' = a
                  ELSE activeItem' = activeItem]_vars

\* C15 witness: a file of a reordered list has been picked up.
FilePickedUpAfterReorder ==
    /\ page = "overlay"
    /\ lastOp = "dragStart"
    /\ activeItem \in coItemIds
    /\ coItems # FileItemsLiteral

\* C16: on the basic-droppable page each drag-end event sets parent to the
\* id of the droppable the drag ended over, or to null when it ended over
\* none, so the status reads "dropped in target area" exactly when that drag
\* ended over droppable-area; apart from a new mount of the page, parent
\* changes in no other step; and in
\* every state the draggable element is rendered in exactly one of the two
\* places.
ParentFollowsDropTarget ==
    /\ [][\A o \in dpOverIds :
             dpHandleDragEnd(o)
               => /\ parent' = o
                  /\ dpStatus(parent') = "Item dropped in target area!"
                        <=> o = "droppable-area"]_vars
    /\ [][parent' # parent
             => \/ \E o \in dpOverIds : dpHandleDragEnd(o)
                \/ \E p \in Pages : Navigate(p)]_vars
    /\ [](dpRenderedOutside(parent) # dpRenderedInside(parent))

\* C16 witness: the element has been dropped in the droppable area.
DroppedInArea ==
    /\ page = "droppable"
    /\ lastOp = "dragEnd"
    /\ parent = "droppable-area"
    /\ dpRenderedInside(parent)

\* C17: in every reachable state of the sortable-list, custom-overlay and
\* Kanban pages, a drag that ends over no target (over is null) or over the
\* dragged item itself leaves the item collection unchanged: the same items
\* in the same order, in every column.  (A drag-start leaves the board as it
\* is, so every reachable board is met in a state that a mount, a drag-end
\* or a reset led to.)
NoTargetDragKeepsItems ==
    /\ page = "sortable" =>
          \A a \in slActiveIds : \A o \in {NULL, a} :
              slItemsAfterDragEnd(slItems, a, o) = slItems
    /\ page = "overlay" =>
          \A a \in coActiveIds : \A o \in {NULL, a} :
              coItemsAfterDragEnd(coItems, a, o) = coItems
    /\ page = "kanban" /\ lastOp # "dragStart" =>
          \A a \in kbActiveIds : \A o \in {NULL, a} :
              kbTasksAfterDragEnd(tasks, a, o) = tasks

\* C17 witness: on a board changed by an earlier drop, a card was picked up
\* and released over no target or over itself (only then does the board keep
\* its active task after a drag-end).
CardReleasedWithoutTarget ==
    /\ page = "kanban"
    /\ lastOp = "dragEnd"
    /\ activeTask # NULL
    /\ tasks # InitialTasksLiteral

\* C18: a mount of the Kanban, sortable-list, custom-overlay,
\* multiple-containers, basic-draggable or basic-droppable page starts from
\* the page's hardcoded initial state, whatever was done during an earlier
\* mount of the page.
MountStartsFromInitial ==
    lastOp = "mount" /\ page # "free"
        => /\ tasks = InitialTasksLiteral /\ activeTask = NULL
           /\ slItems = InitialItemsLiteral
           /\ coItems = FileItemsLiteral /\ activeItem = NULL
           /\ mcItems = mcInitialItems
           /\ position = InitialPosition
           /\ parent = NULL

\* C18 witness: the Kanban page has been mounted after a navigation dropped
\* a Kanban page whose state had changed.
BoardMountedAgain ==
    /\ page = "kanban"
    /\ lastOp = "mount"
    /\ discarded = "kanban"

\* C19: in every reachable state of the Kanban board, a drag of task t that
\* ends over a task u of a different column removes t from its source
\* column and inserts it into u's column at the index u had, so t ends
\* immediately before u; the other tasks of both columns keep their order
\* and the third column is unchanged.  (A drag-start leaves the board as it
\* is, so every reachable board is met in a state that a mount, a drag-end
\* or a reset led to.)
CrossColumnDropTakesIndex ==
    page = "kanban" /\ lastOp # "dragStart" =>
        \A t \in kbActiveIds, u \in TaskIds :
            LET S     == findColumnOfTask(tasks, t)
                D     == findColumnOfTask(tasks, u)
                after == kbTasksAfterDragEnd(tasks, t, u)
            IN  S # UNDEFINED /\ D # UNDEFINED /\ S # D
                  => /\ DOMAIN after = ColumnIds
                     /\ after[S] = Without(tasks[S], t)
                     /\ IndexOf(after[D], t) = IndexOf(tasks[D], u)
                     /\ IndexOf(after[D], u) = IndexOf(after[D], t) + 1
                     /\ Without(after[D], t) = tasks[D]
                     /\ \A c \in ColumnIds \ {S, D} : after[c] = tasks[c]

\* C19 witness: task-1 has been dropped on task-5 and sits between task-4
\* and task-5.
FirstTaskBeforeFifth ==
    /\ page = "kanban"
    /\ lastOp = "dragEnd"
    /\ tasks["to-do"] = <<"task-2", "task-3">>
    /\ tasks["in-progress"] = <<"task-4", "task-1", "task-5">>
    /\ tasks["completed"] = <<"task-6", "task-7">>

\* C20: reordering within one list (sortable list, file list, or a Kanban
\* drop on another task of the same column), in every reachable state: after
\* the drag-end the dragged item is at the index the over item had before
\* the drop, the other items of the list keep their order, and on the Kanban
\* board no other column changes.  (A drag-start leaves the lists as they
\* are, so every reachable list is met in a state that a mount, a drag-end
\* or a reset led to.)
ReorderTakesIndexOfOver ==
    /\ page = "sortable" =>
          \A a \in slActiveIds : \A b \in slItemIds \ {a} :
              LET after == slItemsAfterDragEnd(slItems, a, b)
              IN  /\ IndexOf(after, a) = IndexOf(slItems, b)
                  /\ Without(after, a) = Without(slItems, a)
    /\ page = "overlay" /\ lastOp # "dragStart" =>
          \A a \in coActiveIds : \A b \in coItemIds \ {a} :
              LET after == coItemsAfterDragEnd(coItems, a, b)
              IN  /\ IndexOf(after, a) = IndexOf(coItems, b)
                  /\ Without(after, a) = Without(coItems, a)
    /\ page = "kanban" /\ lastOp # "dragStart" =>
          \A t \in kbActiveIds : \A u \in TaskIds \ {t} :
              LET S     == findColumnOfTask(tasks, t)
                  after == kbTasksAfterDragEnd(tasks, t, u)
              IN  S # UNDEFINED /\ S = findColumnOfTask(tasks, u)
                    => /\ DOMAIN after = ColumnIds
                       /\ IndexOf(after[S], t) = IndexOf(tasks[S], u)
                       /\ Without(after[S], t) = Without(tasks[S], t)
                       /\ \A c \in ColumnIds \ {S} : after[c] = tasks[c]

\* C20 witness: file-1 has been dragged down onto file-3 and has its index.
FirstFileOntoThird ==
    /\ page = "overlay"
    /\ lastOp = "dragEnd"
    /\ coItems = <<"file-2", "file-3", "file-1", "file-4", "file-5">>

\* C21: on the Kanban board no task is ever lost: in every state reachable
\* by drag-start, drag-end and reset, each of the seven initial tasks is in
\* some column, and the columns are exactly to-do, in-progress and completed.
KanbanNoTaskLost ==
    /\ DOMAIN tasks = {"to-do", "in-progress", "completed"}
    /\ \A t \in {"task-1", "task-2", "task-3", "task-4", "task-5", "task-6",
                  "task-7"} :
          \E c \in DOMAIN tasks : Includes(tasks[c], t)

\* C21 witness: two drops have emptied the column in-progress.
ColumnEmptied ==
    /\ page = "kanban"
    /\ lastOp = "dragEnd"
    /\ tasks["in-progress"] = <<>>

\* C22: whatever is stored under the key when the free-positioning page
\* mounts (nothing, undecodable text, a list of position records, or
\* decodable data of another shape), the mounted page never fails to render
\* and its items state is a list of records the page can render.
MountedItemsRenderable ==
    page = "free" => ~fpCrashed /\ Renderable(fpItems.val)

====
